---- MODULE Spec2Model ----
(***************************************************************************)
(* Certificate-Generator: the four batch programs of the repository        *)
(*   src/generate_course_txt_certificate.py   ("course_txt")               *)
(*   generate.py                              ("generate")                 *)
(*   src/generate_bitcoin_txt_certificate.py  ("bitcoin_txt")              *)
(*   src/generate_bitcoin_pdf_certificate.py  ("bitcoin_pdf")              *)
(* as one state machine over the directories they share: ../inputs,        *)
(* ../pending, ../final and an edition's results/<subfolder>.  A run of a   *)
(* program is a sequence of steps, one per external call or file            *)
(* operation, so that a run can also be cut short between any two of them. *)
(***************************************************************************)
EXTENDS Integers, Sequences, FiniteSets, TLC

\* ------------------------------------------------------------------ bounds

\* Longest hexadecimal string given to split_and_format_hash on its own.
MaxHashLen == 10

\* Longest course title, in characters, given to split_and_format_coursename
\* on its own: room for five words of one letter.
MaxTitleLen == 9

\* Longest template text, in characters, given to modify_and_save_tex on its
\* own: room for a placeholder of three characters and one more.
MaxTemplateLen == 4

\* Longest text, in pieces, given to extract_property on its own: a label,
\* a colon, a line end and one piece of the next line.
MaxTextLen == 4

\* Number of certificate items (input CSVs, resp. result subfolders).
MaxItems == 2

\* Length of a hexadecimal digest or block header in the model (64 in reality).
HexLen == 4

\* How many tool failures, foreign writes and interruptions a behaviour holds.
MaxFaults == 2

Items == 1..MaxItems

\* ------------------------------------------------------------------- names

\* File and folder names are sequences of character codes ("b", "a", "c", "ab").
NameTable == << <<98>>, <<97>>, <<99>>, <<97, 98>>, <<98, 97>> >>

Name(i) == NameTable[i]

\* Python's comparison of two strings: by code point, a proper prefix first.
RECURSIVE StrLess(_, _)
StrLess(s, t) ==
    IF s = <<>> THEN t # <<>>
    ELSE IF t = <<>> THEN FALSE
    ELSE IF Head(s) # Head(t) THEN Head(s) < Head(t)
    ELSE StrLess(Tail(s), Tail(t))

StartsWith(s, p) == Len(s) >= Len(p) /\ SubSeq(s, 1, Len(p)) = p

EndsWith(s, p) == Len(s) >= Len(p) /\ SubSeq(s, Len(s) - Len(p) + 1, Len(s)) = p

\* sorted(S) for a set S of strings: ascending by StrLess.
RECURSIVE sorted(_)
sorted(S) ==
    IF S = {} THEN <<>>
    ELSE LET m == CHOOSE x \in S : \A y \in S \ {x} : StrLess(x, y)
         IN  <<m>> \o sorted(S \ {m})

\* Every order in which os.listdir may return the entries of S.
Listings(S) ==
    {q \in [1..Cardinality(S) -> S] : \A a, b \in 1..Cardinality(S) : a # b => q[a] # q[b]}

\* ---------------------------------------------------- external tools' answers

\* Exit status of an external process: 0, or non-zero.
ExitCodes == {0, 1}

\* Diagnostic output of `ots verify`, as a sequence of pieces of text; the
\* phrase "Bitcoin block " and each decimal digit are pieces of their own.
Digits == {"0", "1", "2", "3", "4", "5", "6", "7", "8", "9"}

VerifyStderr ==
    { <<>>,
      <<"Pending confirmation in Bitcoin blockchain">>,
      <<"Bitcoin block ", "hash mismatch">>,
      <<"Got 1 attestation(s)\n", "Success! ", "Bitcoin block ", "1", "2", " attests">> }

\* re.search(r"Bitcoin block (\d+)", stderr): the leftmost place where the
\* phrase is followed by a digit, 0 when there is none (the match is None).
BlockMatch(stderr) ==
    LET hits == {p \in 1..(Len(stderr) - 1) :
                    stderr[p] = "Bitcoin block " /\ stderr[p + 1] \in Digits}
    IN  IF hits = {} THEN 0 ELSE CHOOSE p \in hits : \A q \in hits : p <= q

\* .group(1): the longest run of digits after the phrase.
RECURSIVE DigitRun(_, _)
DigitRun(s, p) ==
    IF p > Len(s) \/ s[p] \notin Digits THEN <<>>
    ELSE <<s[p]>> \o DigitRun(s, p + 1)

BlockHeight(stderr) == DigitRun(stderr, BlockMatch(stderr) + 1)

\* str.strip() on a sequence of characters or pieces.
Whitespace == {" ", "\n", "\t"}

RECURSIVE LStrip(_)
LStrip(s) == IF s # <<>> /\ Head(s) \in Whitespace THEN LStrip(Tail(s)) ELSE s

RECURSIVE RStrip(_)
RStrip(s) ==
    IF s # <<>> /\ s[Len(s)] \in Whitespace THEN RStrip(SubSeq(s, 1, Len(s) - 1)) ELSE s

Strip(s) == RStrip(LStrip(s))

\* The messages get_ots_blockhash returns instead of a header; {e} stands for
\* the text of the CalledProcessError.
FailedToProcess ==
    <<"F", "a", "i", "l", "e", "d", " ", "t", "o", " ", "p", "r", "o", "c", "e", "s", "s", ":", " ", "{e}">>

HeightNotFound ==
    <<"B", "l", "o", "c", "k", " ", "h", "e", "i", "g", "h", "t", " ", "n", "o", "t", " ",
      "f", "o", "u", "n", "d", " ", "i", "n", " ", "O", "T", "S", " ", "v", "e", "r", "i",
      "f", "i", "c", "a", "t", "i", "o", "n", " ", "o", "u", "t", "p", "u", "t">>

\* What mempool.space answers for a height: the block's header hash followed
\* by a newline.
RECURSIVE Zeros(_)
Zeros(n) == IF n <= 0 THEN <<>> ELSE <<"0">> \o Zeros(n - 1)

HeaderOf(height) ==
    IF Len(height) >= HexLen THEN SubSeq(height, 1, HexLen)
    ELSE Zeros(HexLen - Len(height)) \o height

CurlStdout(height) == { HeaderOf(height) \o <<"\n">> }

\* More of what the two tools may print, for calls of the resolver functions
\* on their own.
StderrSamples ==
    VerifyStderr \cup
    { <<"bitcoin block ", "7">>,
      <<"Bitcoin block ", "7">>,
      <<"Bitcoin block ", " ", "7">>,
      <<"Bitcoin block ", "x", "\n", "Bitcoin block ", "3", "4", "5", "6", "7">> }

StdoutSamples(height) ==
    CurlStdout(height) \cup {HeaderOf(height), <<" ">> \o HeaderOf(height) \o <<"\n", "\n">>}

HexChars ==
    {"0", "1", "2", "3", "4", "5", "6", "7", "8", "9", "a", "b", "c", "d", "e", "f"}

IsHex(s) == \A k \in 1..Len(s) : s[k] \in HexChars

\* ------------------------------------------------------------ pure functions

\* is_ots_done: upgrade and verify run with check=True inside one try; a
\* CalledProcessError of either returns False, otherwise the search decides.
\* The result is "True" or "False"; any other value names an exception that
\* leaves the function.
IsOtsDoneUncaught(upgrade, verify, stderr) ==
    IF upgrade # 0 \/ verify # 0 THEN "CalledProcessError"
    ELSE IF BlockMatch(stderr) # 0 THEN "True" ELSE "False"

\* is_ots_done with an upgrade whose exit status is ignored.
IsOtsDoneBestEffort(upgrade, verify, stderr) ==
    IF verify # 0 THEN "False"
    ELSE IF BlockMatch(stderr) # 0 THEN "True" ELSE "False"

is_ots_done(upgrade, verify, stderr) ==
    IF upgrade # 0 THEN "False"
    ELSE IF verify # 0 THEN "False"
    ELSE IF BlockMatch(stderr) # 0 THEN "True" ELSE "False"

\* get_ots_blockhash: the header, or one of the two messages, as a string.
get_ots_blockhash(upgrade, verify, stderr, curl, stdout) ==
    IF upgrade # 0 THEN FailedToProcess
    ELSE IF verify # 0 THEN FailedToProcess
    ELSE IF BlockMatch(stderr) = 0 THEN HeightNotFound
    ELSE IF curl # 0 THEN FailedToProcess
    ELSE Strip(stdout)

\* format_hash: a space after every four characters.
RECURSIVE format_hash(_)
format_hash(h) ==
    IF Len(h) <= 4 THEN h
    ELSE SubSeq(h, 1, 4) \o <<" ">> \o format_hash(SubSeq(h, 5, Len(h)))

\* split_and_format_hash with the midpoint rounded up.
SplitHashCeil(h) ==
    LET midpoint == (Len(h) + 1) \div 2
    IN  << format_hash(SubSeq(h, 1, midpoint)),
           format_hash(SubSeq(h, midpoint + 1, Len(h))) >>

split_and_format_hash(h) ==
    LET midpoint == Len(h) \div 2
    IN  << format_hash(SubSeq(h, 1, midpoint)),
           format_hash(SubSeq(h, midpoint + 1, Len(h))) >>


\* Python's None, and str(value) as modify_and_save_tex applies it.
None == <<"<None>">>

str(value) == IF value = None THEN <<"None">> ELSE value

\* str.replace(old, new) on a text of characters: the occurrences of old from
\* left to right, none overlapping another.
RECURSIVE replace(_, _, _)
replace(content, old, new) ==
    IF content = <<>> THEN <<>>
    ELSE IF StartsWith(content, old)
         THEN new \o replace(SubSeq(content, Len(old) + 1, Len(content)), old, new)
    ELSE <<Head(content)>> \o replace(Tail(content), old, new)

\* f"{{{key}}}"
Placeholder(key) == <<"{">> \o key \o <<"}">>

\* modify_and_save_tex: what is written to new_tex_path for the content read
\* from template_path; certificate_data is the dict's items in their order,
\* each a pair of key and value, and every key is replaced in the content the
\* keys before it have left.
RECURSIVE modify_and_save_tex(_, _)
modify_and_save_tex(content, certificate_data) ==
    IF certificate_data = <<>> THEN content
    ELSE LET key == Head(certificate_data)[1]
             value == Head(certificate_data)[2]
         IN  modify_and_save_tex(replace(content, Placeholder(key), str(value)),
                                 Tail(certificate_data))

\* The outcome of a call that may raise: the exception's name, "" for none,
\* and the value returned.
Raised(exception) == [exc |-> exception, val |-> <<>>]

Returned(value) == [exc |-> "", val |-> value]

\* re.IGNORECASE on a piece of text: the labels' spellings fold to one.
Fold(piece) ==
    CASE piece \in {"Full name", "FULL NAME", "full name"} -> "full name"
      [] piece \in {"Display name", "DISPLAY NAME"} -> "display name"
      [] piece \in {"Date of completion", "DATE OF COMPLETION"} -> "date of completion"
      [] piece \in {"Course name", "COURSE NAME"} -> "course name"
      [] piece \in {"Course ID", "Course Id", "COURSE ID"} -> "course id"
      [] piece \in {"Duration", "DURATION"} -> "duration"
      [] OTHER -> piece

\* \s* from place q: how many whitespace pieces follow.
RECURSIVE SpaceRun(_, _)
SpaceRun(content, q) ==
    IF q <= Len(content) /\ content[q] \in Whitespace THEN 1 + SpaceRun(content, q + 1) ELSE 0

\* (.+) from place g: the last place of the longest run without a newline.
RECURSIVE LineEnd(_, _)
LineEnd(content, g) ==
    IF g + 1 <= Len(content) /\ content[g + 1] # "\n" THEN LineEnd(content, g + 1) ELSE g

\* \s*(.+) tried at q: where the group starts, \s* as long as it can be while
\* one piece other than a newline is left for the group; 0 when it fails.
GroupStart(content, q) ==
    LET ok == {g \in q..(q + SpaceRun(content, q)) : g <= Len(content) /\ content[g] # "\n"}
    IN  IF ok = {} THEN 0 ELSE CHOOSE g \in ok : \A h \in ok : h <= g

\* The pattern tried at place p: the label, ":" taken if there and the rest
\* then matches, else not taken. The group's first place, 0 for no match.
MatchAt(content, property_name, p) ==
    IF Fold(content[p]) # Fold(property_name) THEN 0
    ELSE IF p + 1 <= Len(content) /\ content[p + 1] = ":" /\ GroupStart(content, p + 2) # 0
         THEN GroupStart(content, p + 2)
    ELSE GroupStart(content, p + 1)

\* extract_property taking the group of whatever re.search returned: of None
\* there is none (AttributeError).
ExtractPropertyUnguarded(content, property_name) ==
    LET hits == {p \in 1..Len(content) : MatchAt(content, property_name, p) # 0}
    IN  IF hits = {} THEN <<"AttributeError">>
        ELSE LET p == CHOOSE x \in hits : \A y \in hits : x <= y
                 g == MatchAt(content, property_name, p)
             IN  Strip(SubSeq(content, g, LineEnd(content, g)))

\* extract_property on the file's content: re.search takes the leftmost match.
extract_property(content, property_name) ==
    LET hits == {p \in 1..Len(content) : MatchAt(content, property_name, p) # 0}
    IN  IF hits = {} THEN None
        ELSE LET p == CHOOSE x \in hits : \A y \in hits : x <= y
                 g == MatchAt(content, property_name, p)
             IN  Strip(SubSeq(content, g, LineEnd(content, g)))

\* The calendar of the years the model writes dates of, one of them a leap
\* year.
Years == {2023, 2024}

DaysIn(year, month) ==
    IF month = 2 THEN (IF year % 4 = 0 THEN 29 ELSE 28)
    ELSE IF month \in {4, 6, 9, 11} THEN 30 ELSE 31

Dates == {t \in Years \X (1..12) \X (1..31) : t[3] <= DaysIn(t[1], t[2])}

\* A date written as YYYY-MM-DD.
Pad2(n) == IF n < 10 THEN "0" \o ToString(n) ELSE ToString(n)

DateString(t) == ToString(t[1]) \o "-" \o Pad2(t[2]) \o "-" \o Pad2(t[3])

\* datetime.strptime(date_string, "%Y-%m-%d") on such text: year, month, day.
KnownDates ==
    [x \in {DateString(t) : t \in Dates} |-> CHOOSE t \in Dates : DateString(t) = x]

MonthName ==
    <<"January", "February", "March", "April", "May", "June", "July", "August",
      "September", "October", "November", "December">>

\* format_date with the suffix taken from the day's last digit alone.
FormatDateByLastDigit(date_string) ==
    IF date_string = None THEN Raised("TypeError")
    ELSE IF Len(date_string) # 1 \/ date_string[1] \notin DOMAIN KnownDates
         THEN Raised("ValueError")
    ELSE LET d == KnownDates[date_string[1]]
             day == d[3]
             suffix == IF day % 10 = 0 \/ day % 10 >= 4 THEN "th"
                       ELSE <<"st", "nd", "rd">>[((day % 10) - 1) + 1]
         IN  Returned(<<ToString(day), suffix, " ", MonthName[d[2]], ", ", ToString(d[1])>>)

\* format_date: strptime raises TypeError on None and ValueError on text that
\* is no date; else day, suffix, month name and year.
format_date(date_string) ==
    IF date_string = None THEN Raised("TypeError")
    ELSE IF Len(date_string) # 1 \/ date_string[1] \notin DOMAIN KnownDates
         THEN Raised("ValueError")
    ELSE LET d == KnownDates[date_string[1]]
             day == d[3]
             suffix == IF (4 <= day /\ day <= 20) \/ (24 <= day /\ day <= 30) THEN "th"
                       ELSE <<"st", "nd", "rd">>[((day % 10) - 1) + 1]
         IN  Returned(<<ToString(day), suffix, " ", MonthName[d[2]], ", ", ToString(d[1])>>)

\* str.split(): the words between runs of whitespace.
RECURSIVE split(_)
split(s) ==
    LET t == LStrip(s)
    IN  IF t = <<>> THEN <<>>
        ELSE IF Len(t) >= 2 /\ t[2] \notin Whitespace
             THEN LET rest == split(Tail(t))
                  IN  <<t[1] \o rest[1]>> \o Tail(rest)
        ELSE <<t[1]>> \o split(Tail(t))

\* " ".join(words)
RECURSIVE join(_)
join(words) ==
    IF words = <<>> THEN <<>>
    ELSE IF Len(words) = 1 THEN <<words[1]>>
    ELSE <<words[1], " ">> \o join(Tail(words))

\* split_and_format_coursename with the middle rounded up.
SplitCoursenameCeil(coursename) ==
    IF coursename = None THEN Raised("AttributeError")
    ELSE LET words == split(coursename)
             mid == (Len(words) + 1) \div 2
         IN  Returned(<< join(SubSeq(words, 1, mid)), join(SubSeq(words, mid + 1, Len(words))) >>)

\* split_and_format_coursename: None has no split (AttributeError).
split_and_format_coursename(coursename) ==
    IF coursename = None THEN Raised("AttributeError")
    ELSE LET words == split(coursename)
             mid == Len(words) \div 2
         IN  Returned(<< join(SubSeq(words, 1, mid)), join(SubSeq(words, mid + 1, Len(words))) >>)


\* -------------------------------------------------------------- file contents

\* The text templates ../templates/pbn_course_certificate.txt and
\* pbn_bitcoin_certificate.txt are not part of the sources: a template either
\* has a line for every property the PDF programs read, or lacks the name
\* line, or lacks the date line.
TxtTemplates == {"full", "no_name", "no_date"}

FullNames == <<"Alice", "Bob", "Carol", "Dave", "Erin">>

\* template_content.format(...) of generate_course_txt_certificate.py.
CourseText(template, i) ==
    (IF template = "no_name" THEN <<>> ELSE <<"Full name", ":", " ", FullNames[i], "\n">>)
    \o <<"Course name", ":", " ", "Bitcoin", " ", "Mining", " ", "Basics", "\n">>
    \o <<"Course ID", ":", " ", "BTC101", "\n">>
    \o <<"Duration", ":", " ", "10", "\n">>
    \o (IF template = "no_date" THEN <<>>
        ELSE <<"Date of completion", ":", " ", "2024-01-21", "\n">>)

\* template_content.format(...) of generate_bitcoin_txt_certificate.py.
BitcoinText(template, i) ==
    (IF template = "no_name" THEN <<>> ELSE <<"Display name", ":", " ", FullNames[i], "\n">>)
    \o <<"Total score", ":", " ", "80", "\n">>
    \o (IF template = "no_date" THEN <<>>
        ELSE <<"Date of completion", ":", " ", "2024-02-11", "\n">>)

\* gpg --clearsign: the text between the armour header and the signature.
ClearSign(text) ==
    <<"-----BEGIN PGP SIGNED MESSAGE-----", "\n", "Hash: SHA512", "\n", "\n">>
    \o text
    \o <<"-----BEGIN PGP SIGNATURE-----", "\n", "<signature>", "\n",
         "-----END PGP SIGNATURE-----", "\n">>

\* The bytes of an item's signed file: as the signer wrote them, or with a
\* byte appended by a later writer.
SignedBytes(flow, template, i, changed) ==
    ClearSign(IF flow = "course" THEN CourseText(template, i) ELSE BitcoinText(template, i))
    \o (IF changed THEN <<" ">> ELSE <<>>)

\* compute_sha256 of an item's signed file: one digest per content, named by
\* the item and by whether the bytes are still the signer's.
HexDigit(n) ==
    <<"0", "1", "2", "3", "4", "5", "6", "7", "8", "9", "a", "b", "c", "d", "e", "f">>[n + 1]

compute_sha256(i, changed) ==
    <<HexDigit(10 + i), IF changed THEN "f" ELSE "0">> \o Zeros(HexLen - 2)

\* The contents of result.yml the model draws from: no file, no categories,
\* categories summing to 79, to 80.
ResultYmls ==
    { [exists |-> FALSE, categories |-> <<>>, has_categories |-> FALSE],
      [exists |-> TRUE, categories |-> <<>>, has_categories |-> FALSE],
      [exists |-> TRUE, categories |-> <<40, 39>>, has_categories |-> TRUE],
      [exists |-> TRUE, categories |-> <<40, 40>>, has_categories |-> TRUE] }

RECURSIVE sum(_)
sum(values) == IF values = <<>> THEN 0 ELSE Head(values) + sum(Tail(values))

get_total_score(result_data) ==
    IF ~result_data.has_categories THEN 0 ELSE sum(result_data.categories)

\* No certificate_data: nothing has been written into a template yet.
NoData == [kind |-> "none"]


\* ----------------------------------------------------------------- the state

VARIABLES
    txt_template,  \* which text template ../templates holds
    inputs,        \* the items whose course*.csv is in ../inputs
    subfolders,    \* the items with a subfolder in the edition's results/
    result_yml,    \* [item -> the content of results/<name>/result.yml]
    pending,       \* [item -> the kinds of its course_<name>* files in ../pending]
    final,         \* [item -> the kinds of its files in ../final]
    results,       \* [item -> the kinds of the files in results/<name>/]
    staged_tex,    \* whose data ../pending/bitcoin_certificate-signed.tex holds, 0: no file
    staged_pdf,    \* whose data ../pending/bitcoin_certificate-signed.pdf holds, 0: no file
    changed,       \* [item -> its signed text's bytes are no longer the signer's]
    proof,         \* [item -> the digest its .ots proof was stamped for, <<>> for none]
    prog,          \* the program that is running, "none" between runs
    worklist,      \* the entries its loop goes through, in the loop's order
    idx,           \* the place of the current entry in worklist
    pc,            \* the step the run is at
    txid,          \* what get_ots_blockhash returned for the current entry
    written,       \* the certificate_data just written into the template
    compiled,      \* what compile_tex_to_pdf returned for the current entry, "" before
    deferred,      \* the entries this run found not confirmed yet
    faults,        \* how many tool failures and interruptions there have been
    probe          \* the last call of the resolver functions on drawn answers

fs == <<inputs, subfolders, result_yml, pending, final, results, staged_tex, staged_pdf,
        changed, proof>>

run == <<prog, worklist, idx, pc, txid, written, compiled, deferred>>

vars == <<txt_template, fs, run, faults, probe>>

\* The kinds of an item's files: the plaintext, the signed text, its proof,
\* the backup `ots upgrade` leaves beside a proof it rewrote, the document
\* source and the PDF.
Kinds == {"txt", "signed", "ots", "bak", "tex", "pdf"}

NoFile == [exists |-> FALSE, categories |-> <<>>, has_categories |-> FALSE]

NoProbe == [call |-> "none"]

Idle ==
    /\ prog = "none"
    /\ worklist = <<>>
    /\ idx = 0
    /\ pc = "idle"
    /\ txid = <<>>
    /\ written = NoData
    /\ compiled = ""
    /\ deferred = {}

Empty ==
    /\ pending = [i \in Items |-> {}]
    /\ final = [i \in Items |-> {}]
    /\ results = [i \in Items |-> {}]
    /\ staged_tex = 0
    /\ staged_pdf = 0
    /\ changed = [i \in Items |-> FALSE]
    /\ proof = [i \in Items |-> <<>>]

\* Before the first run: either course CSVs wait in ../inputs, or an edition
\* has its result subfolders.
Init ==
    /\ txt_template \in TxtTemplates
    /\ \/ /\ inputs = Items
          /\ subfolders = {}
          /\ result_yml = [i \in Items |-> NoFile]
       \/ /\ inputs = {}
          /\ subfolders = Items
          /\ result_yml \in [Items -> ResultYmls]
    /\ Empty
    /\ Idle
    /\ faults = 0
    /\ probe = NoProbe

\* ------------------------------------------------------------ a run's frame

\* The entry the loop is at.
cur == worklist[idx]

At(program, step) == prog = program /\ pc = step /\ idx <= Len(worklist)

\* A tool fails, or the run is cut short: one more of the failures a
\* behaviour may hold.
Fault == faults < MaxFaults /\ faults' = faults + 1

NoFault == UNCHANGED faults

\* The loop body is done for this entry: on to the next one.
NextEntry(first) ==
    /\ idx' = idx + 1
    /\ pc' = first
    /\ txid' = <<>>
    /\ written' = NoData
    /\ compiled' = ""
    /\ UNCHANGED <<prog, worklist>>

\* An exception leaves the loop: the program is about to exit with a traceback.
Crash ==
    /\ pc' = "crashed"
    /\ UNCHANGED <<prog, worklist, idx, txid, written, compiled>>

Goto(step) ==
    /\ pc' = step
    /\ UNCHANGED <<prog, worklist, idx, txid, written, compiled>>

Begin(program, entries, first) ==
    /\ prog = "none"
    /\ prog' = program
    /\ worklist' = entries
    /\ idx' = 1
    /\ pc' = first
    /\ UNCHANGED <<txid, written, compiled, deferred, faults, probe>>

\* The process is gone, and with it what it held in memory.
Gone ==
    /\ prog' = "none"
    /\ worklist' = <<>>
    /\ idx' = 0
    /\ pc' = "idle"
    /\ txid' = <<>>
    /\ written' = NoData
    /\ compiled' = ""
    /\ deferred' = {}

\* The loop has run out of entries, or an exception has left it: exit.
Finish ==
    /\ prog # "none"
    /\ idx > Len(worklist) \/ pc = "crashed"
    /\ Gone
    /\ UNCHANGED <<txt_template, fs, faults, probe>>

\* The process is killed between two steps (Ctrl-C, power loss).
Interrupt ==
    /\ prog # "none"
    /\ idx <= Len(worklist)
    /\ pc # "crashed"
    /\ Fault
    /\ Gone
    /\ UNCHANGED <<txt_template, fs, probe>>

\* The entries named by a set of items, ascending by name: sorted(...) of the
\* names, each standing for its item.
ItemNamed(name) == CHOOSE i \in Items : Name(i) = name

SortedItems(S) ==
    LET names == sorted({Name(i) : i \in S})
    IN  [k \in 1..Len(names) |-> ItemNamed(names[k])]

\* ------------------------------------- src/generate_course_txt_certificate.py

\* __main__: os.listdir(inputs_path), not sorted; every course*.csv is taken.
CourseTxtStart ==
    /\ \E listing \in Listings(inputs) : Begin("course_txt", listing, "write")
    /\ UNCHANGED <<txt_template, fs>>

\* generate_certificate up to the write of the plaintext into ../pending:
\* the course's data is fetched with requests.get, unguarded, so a fetch that
\* fails raises.
CourseTxtWrite ==
    /\ At("course_txt", "write")
    /\ \E fetched \in BOOLEAN :
          IF fetched
          THEN /\ pending' = [pending EXCEPT ![cur] = @ \cup {"txt"}]
               /\ Goto("sign")
               /\ NoFault
          ELSE /\ Crash
               /\ Fault
               /\ UNCHANGED pending
    /\ UNCHANGED <<txt_template, inputs, subfolders, result_yml, final, results, staged_tex,
                   staged_pdf, changed, proof, deferred, probe>>

\* sign_certificate with a gpg whose exit status is not checked.
CourseTxtSignUnchecked ==
    /\ At("course_txt", "sign")
    /\ \E gpg \in ExitCodes :
          IF gpg = 0
          THEN /\ pending' = [pending EXCEPT ![cur] = @ \cup {"signed"}]
               /\ changed' = [changed EXCEPT ![cur] = FALSE]
               /\ Goto("remove_txt")
               /\ NoFault
          ELSE /\ Goto("remove_txt")
               /\ Fault
               /\ UNCHANGED <<pending, changed>>
    /\ UNCHANGED <<txt_template, inputs, subfolders, result_yml, final, results, staged_tex,
                   staged_pdf, proof, deferred, probe>>

\* sign_certificate: gpg with check=True, so a non-zero exit raises.
CourseTxtSign ==
    /\ At("course_txt", "sign")
    /\ \E gpg \in ExitCodes :
          IF gpg = 0
          THEN /\ pending' = [pending EXCEPT ![cur] = @ \cup {"signed"}]
               /\ changed' = [changed EXCEPT ![cur] = FALSE]
               /\ Goto("remove_txt")
               /\ NoFault
          ELSE /\ Crash
               /\ Fault
               /\ UNCHANGED <<pending, changed>>
    /\ UNCHANGED <<txt_template, inputs, subfolders, result_yml, final, results, staged_tex,
                   staged_pdf, proof, deferred, probe>>

\* os.remove(file_path) of the plaintext.
CourseTxtRemoveTxt ==
    /\ At("course_txt", "remove_txt")
    /\ pending' = [pending EXCEPT ![cur] = @ \ {"txt"}]
    /\ Goto("stamp")
    /\ UNCHANGED <<txt_template, inputs, subfolders, result_yml, final, results, staged_tex,
                   staged_pdf, changed, proof, deferred, faults, probe>>

\* timestamp_file: ots stamp with check=True; the proof holds the digest of
\* the signed file's bytes.
CourseTxtStamp ==
    /\ At("course_txt", "stamp")
    /\ \E ots \in ExitCodes :
          IF ots = 0
          THEN /\ pending' = [pending EXCEPT ![cur] = @ \cup {"ots"}]
               /\ proof' = [proof EXCEPT ![cur] = compute_sha256(cur, changed[cur])]
               /\ Goto("remove_csv")
               /\ NoFault
          ELSE /\ Crash
               /\ Fault
               /\ UNCHANGED <<pending, proof>>
    /\ UNCHANGED <<txt_template, inputs, subfolders, result_yml, final, results, staged_tex,
                   staged_pdf, changed, deferred, probe>>

\* __main__: os.remove(file_path) of the CSV, after generate_certificate.
CourseTxtRemoveCsv ==
    /\ At("course_txt", "remove_csv")
    /\ inputs' = inputs \ {cur}
    /\ NextEntry("write")
    /\ UNCHANGED <<txt_template, subfolders, result_yml, pending, final, results, staged_tex,
                   staged_pdf, changed, proof, deferred, faults, probe>>

CourseTxt ==
    \/ CourseTxtStart
    \/ CourseTxtWrite
    \/ CourseTxtSign
    \/ CourseTxtRemoveTxt
    \/ CourseTxtStamp
    \/ CourseTxtRemoveCsv

\* ------------------------------------------------------------------ generate.py

\* The names of an item's files in ../pending: "course_", the item's name and
\* the ending of the kind. (The item's name stands for what follows
\* "course_" in course_certificate_{username}_{course_id}.)
CoursePrefix == <<99, 111, 117, 114, 115, 101, 95>>

DotOts == <<46, 111, 116, 115>>

SignedTxt == <<45, 115, 105, 103, 110, 101, 100, 46, 116, 120, 116>>

Ending(kind) ==
    CASE kind = "txt" -> <<46, 116, 120, 116>>
      [] kind = "signed" -> SignedTxt
      [] kind = "ots" -> SignedTxt \o DotOts
      [] kind = "bak" -> SignedTxt \o DotOts \o <<46, 98, 97, 107>>
      [] kind = "tex" -> <<45, 115, 105, 103, 110, 101, 100, 46, 116, 101, 120>>
      [] kind = "pdf" -> <<45, 115, 105, 103, 110, 101, 100, 46, 112, 100, 102>>

PendingName(i, kind) == CoursePrefix \o Name(i) \o Ending(kind)

\* "bitcoin_certificate" and the ending: the other PDF program's files in ../pending.
StagedName(kind) ==
    <<98, 105, 116, 99, 111, 105, 110, 95, 99, 101, 114, 116, 105, 102, 105, 99, 97, 116,
      101>> \o Ending(kind)

\* os.listdir(pending_path), as a set of names.
PendingListing ==
    UNION {{PendingName(i, k) : k \in pending[i]} : i \in Items}
    \cup (IF staged_tex # 0 THEN {StagedName("tex")} ELSE {})
    \cup (IF staged_pdf # 0 THEN {StagedName("pdf")} ELSE {})

IsCourseOts(filename) == StartsWith(filename, CoursePrefix) /\ EndsWith(filename, DotOts)

ItemOfOts(filename) == CHOOSE i \in Items : PendingName(i, "ots") = filename

\* The loop's entries: the order of the names is kept, and each name the
\* filter of line 223 lets through stands for its item.
RECURSIVE CourseOtsItems(_)
CourseOtsItems(filenames) ==
    IF filenames = <<>> THEN <<>>
    ELSE (IF IsCourseOts(Head(filenames)) THEN <<ItemOfOts(Head(filenames))>> ELSE <<>>)
         \o CourseOtsItems(Tail(filenames))

\* filenames = sorted(os.listdir(pending_path))
SortedListing(S) == sorted(S)

GenerateStart ==
    /\ Begin("generate", CourseOtsItems(SortedListing(PendingListing)), "is_ots_done")
    /\ UNCHANGED <<txt_template, fs>>

\* `ots verify` hashes the target file itself: it exits non-zero when the
\* file is missing or its digest is not the one the proof was stamped for.
VerifyCodes(has_signed, i) ==
    IF has_signed /\ compute_sha256(i, changed[i]) = proof[i] THEN ExitCodes ELSE {1}

\* Lines 224-226: is_ots_done(pathfile); not done, nothing else is done here.
\* (The backup `ots upgrade` may leave in ../pending is not followed: its
\* name passes no filter and no program touches it.)
GenerateIsOtsDone ==
    /\ At("generate", "is_ots_done")
    /\ \E upgrade \in ExitCodes, verify \in VerifyCodes("signed" \in pending[cur], cur),
          stderr \in VerifyStderr :
          LET done == is_ots_done(upgrade, verify, stderr)
          IN  IF done = "True" THEN Goto("get_ots_blockhash") /\ UNCHANGED deferred
              ELSE IF done = "False"
                   THEN NextEntry("is_ots_done") /\ deferred' = deferred \cup {cur}
              ELSE Crash /\ UNCHANGED deferred
    /\ UNCHANGED <<txt_template, fs, faults, probe>>

\* Line 229: get_ots_blockhash(pathfile); what it returns is kept as txid.
GenerateGetBlockhash ==
    /\ At("generate", "get_ots_blockhash")
    /\ \E upgrade \in ExitCodes, verify \in VerifyCodes("signed" \in pending[cur], cur),
          stderr \in VerifyStderr, curl \in ExitCodes :
          \E stdout \in CurlStdout(BlockHeight(stderr)) :
              txid' = get_ots_blockhash(upgrade, verify, stderr, curl, stdout)
    /\ pc' = "render"
    /\ UNCHANGED <<txt_template, fs, prog, worklist, idx, written, compiled, deferred, faults,
                   probe>>

\* Some other writer changes the bytes of the signed text after the proof has
\* been verified for it and before it is read for the certificate. (At any
\* other time a changed text only makes `ots verify` exit non-zero, which
\* every poll allows for anyway.)
Tamper ==
    /\ prog \in {"generate", "bitcoin_pdf"}
    /\ pc = "render"
    /\ ~changed[cur]
    /\ changed' = [changed EXCEPT ![cur] = TRUE]
    /\ Fault
    /\ UNCHANGED <<txt_template, inputs, subfolders, result_yml, pending, final, results,
                   staged_tex, staged_pdf, proof, run, probe>>

\* Lines 230-245: the certificate_data of a course certificate, each value as
\* modify_and_save_tex writes it (str(value)).
CourseData(content, digest, anchor) ==
    LET names == split_and_format_coursename(extract_property(content, "Course name"))
        date == format_date(extract_property(content, "Date of completion"))
    IN  IF names.exc # "" THEN Raised(names.exc)
        ELSE IF date.exc # "" THEN Raised(date.exc)
        ELSE Returned(
              [kind |-> "course",
               fullname |-> str(extract_property(content, "Full name")),
               date |-> str(date.val),
               course_id |-> str(extract_property(content, "Course ID")),
               course_name_1 |-> str(names.val[1]),
               course_name_2 |-> str(names.val[2]),
               duration |-> str(extract_property(content, "Duration")),
               hash_1 |-> str(split_and_format_hash(digest)[1]),
               hash_2 |-> str(split_and_format_hash(digest)[2]),
               txid_1 |-> str(split_and_format_hash(anchor)[1]),
               txid_2 |-> str(split_and_format_hash(anchor)[2])])

\* Lines 230-252: the data is built from the signed text and written into the
\* template as <name>-signed.tex; an exception on the way leaves the program.
GenerateRender ==
    /\ At("generate", "render")
    /\ LET data == IF "signed" \in pending[cur]
                   THEN CourseData(SignedBytes("course", txt_template, cur, changed[cur]),
                                   compute_sha256(cur, changed[cur]), txid)
                   ELSE Raised("FileNotFoundError")
       IN  IF data.exc # ""
           THEN Crash /\ UNCHANGED pending
           ELSE /\ pending' = [pending EXCEPT ![cur] = @ \cup {"tex"}]
                /\ written' = data.val
                /\ txid' = <<>>
                /\ pc' = "compile"
                /\ UNCHANGED <<prog, worklist, idx, compiled>>
    /\ UNCHANGED <<txt_template, inputs, subfolders, result_yml, final, results, staged_tex,
                   staged_pdf, changed, proof, deferred, faults, probe>>

\* One run of lualatex: its exit status, and whether it wrote the PDF.
LualatexRuns == ExitCodes \X BOOLEAN

\* The two passes at their best: both exit with 0 and the PDF is written.
Compiled(pass_1, pass_2) == pass_1 = <<0, TRUE>> /\ pass_2 = <<0, TRUE>>

\* Whether the PDF is there after the passes: the second one is run only
\* when the first exits with 0.
PdfAfter(had_pdf, pass_1, pass_2) ==
    had_pdf \/ pass_1[2] \/ (pass_1[1] = 0 /\ pass_2[2])

\* compile_tex_to_pdf(signed_tex_path, pending_path): False as soon as a pass
\* exits non-zero; after two good passes True if the PDF exists, and then the
\* .log, .aux, .out and .tex are removed.
compile_tex_to_pdf(had_pdf, pass_1, pass_2) ==
    pass_1[1] = 0 /\ pass_2[1] = 0 /\ PdfAfter(had_pdf, pass_1, pass_2)

\* Line 255: main calls it and goes on whatever it returned.
GenerateCompile ==
    /\ At("generate", "compile")
    /\ \E pass_1 \in LualatexRuns, pass_2 \in LualatexRuns :
          LET had_pdf == "pdf" \in pending[cur]
              made == IF PdfAfter(had_pdf, pass_1, pass_2) THEN {"pdf"} ELSE {}
              cleaned == IF compile_tex_to_pdf(had_pdf, pass_1, pass_2) THEN {"tex"} ELSE {}
          IN  /\ pending' = [pending EXCEPT ![cur] = (@ \cup made) \ cleaned]
              /\ compiled' = IF compile_tex_to_pdf(had_pdf, pass_1, pass_2)
                             THEN "True" ELSE "False"
              /\ IF Compiled(pass_1, pass_2) THEN NoFault ELSE Fault
    /\ pc' = "move_files_to_final"
    /\ written' = NoData
    /\ UNCHANGED <<txt_template, inputs, subfolders, result_yml, final, results, staged_tex,
                   staged_pdf, changed, proof, prog, worklist, idx, txid, deferred, probe>>

\* files_to_move of move_files_to_final, in its order.
files_to_move == <<"ots", "signed", "pdf">>

\* move_files_to_final(base_filename, pending_path, final_path): each file
\* that exists is moved, a missing one is a warning; shutil.move raising at
\* file number `fails` (0: none does) ends the function there.
MovedFiles(present, fails) ==
    LET stop == IF fails = 0 THEN Len(files_to_move) ELSE fails - 1
    IN  {files_to_move[k] : k \in 1..stop} \cap present

\* What it returns: True after the loop, False from the except clause.
MoveResult(fails) == IF fails = 0 THEN "True" ELSE "False"

move_files_to_final(fails) ==
    LET moved == MovedFiles(pending[cur], fails)
    IN  /\ fails # 0 => files_to_move[fails] \in pending[cur]
        /\ pending' = [pending EXCEPT ![cur] = @ \ moved]
        /\ final' = [final EXCEPT ![cur] = @ \cup moved]
        /\ changed' = [changed EXCEPT ![cur] = IF "signed" \in moved THEN FALSE ELSE @]

\* Line 257: main calls it and goes on to the next entry whatever it returned.
GenerateMove ==
    /\ At("generate", "move_files_to_final")
    /\ \E fails \in 0..Len(files_to_move) :
          /\ move_files_to_final(fails)
          /\ IF fails = 0 THEN NoFault ELSE Fault
    /\ NextEntry("is_ots_done")
    /\ UNCHANGED <<txt_template, inputs, subfolders, result_yml, results, staged_tex,
                   staged_pdf, proof, deferred, probe>>

\* The process is killed inside move_files_to_final, after `done` of its
\* shutil.move calls and before the next one (lines 171-173).
GenerateMoveInterrupted ==
    /\ At("generate", "move_files_to_final")
    /\ \E done \in 1..(Len(files_to_move) - 1) :
          LET moved == {files_to_move[k] : k \in 1..done} \cap pending[cur]
          IN  /\ moved # {}
              /\ pending' = [pending EXCEPT ![cur] = @ \ moved]
              /\ final' = [final EXCEPT ![cur] = @ \cup moved]
              /\ changed' = [changed EXCEPT ![cur] = IF "signed" \in moved THEN FALSE ELSE @]
    /\ Fault
    /\ Gone
    /\ UNCHANGED <<txt_template, inputs, subfolders, result_yml, results, staged_tex,
                   staged_pdf, proof, probe>>

Generate ==
    \/ GenerateStart
    \/ GenerateIsOtsDone
    \/ GenerateGetBlockhash
    \/ GenerateRender
    \/ GenerateCompile
    \/ GenerateMove
    \/ GenerateMoveInterrupted

\* ------------------------------------ src/generate_bitcoin_txt_certificate.py

\* Line 112: the score a result needs for a certificate.
PassScore == 80

\* process_edition: `for subfolder in sorted(subfolders)`.
BitcoinTxtStart ==
    /\ Begin("bitcoin_txt", SortedItems(subfolders), "process_result")
    /\ UNCHANGED <<txt_template, fs>>

\* process_result without the look for bitcoin_certificate-signed.txt.ots.
BitcoinTxtProcessResultUngated ==
    /\ At("bitcoin_txt", "process_result")
    /\ IF /\ result_yml[cur].exists
          /\ get_total_score(result_yml[cur]) >= PassScore
       THEN /\ results' = [results EXCEPT ![cur] = @ \cup {"txt"}]
            /\ Goto("sign")
       ELSE /\ NextEntry("process_result")
            /\ UNCHANGED results
    /\ UNCHANGED <<txt_template, inputs, subfolders, result_yml, pending, final, staged_tex,
                   staged_pdf, changed, proof, deferred, faults, probe>>

\* process_result, and generate_certificate up to the write of the
\* plaintext: no result.yml, a score below the pass score or a proof already
\* there end the entry.
BitcoinTxtProcessResult ==
    /\ At("bitcoin_txt", "process_result")
    /\ IF /\ result_yml[cur].exists
          /\ get_total_score(result_yml[cur]) >= PassScore
          /\ "ots" \notin results[cur]
       THEN /\ results' = [results EXCEPT ![cur] = @ \cup {"txt"}]
            /\ Goto("sign")
       ELSE /\ NextEntry("process_result")
            /\ UNCHANGED results
    /\ UNCHANGED <<txt_template, inputs, subfolders, result_yml, pending, final, staged_tex,
                   staged_pdf, changed, proof, deferred, faults, probe>>

\* sign_certificate: gpg with check=True, so a non-zero exit raises.
BitcoinTxtSign ==
    /\ At("bitcoin_txt", "sign")
    /\ \E gpg \in ExitCodes :
          IF gpg = 0
          THEN /\ results' = [results EXCEPT ![cur] = @ \cup {"signed"}]
               /\ changed' = [changed EXCEPT ![cur] = FALSE]
               /\ Goto("remove_txt")
               /\ NoFault
          ELSE /\ Crash
               /\ Fault
               /\ UNCHANGED <<results, changed>>
    /\ UNCHANGED <<txt_template, inputs, subfolders, result_yml, pending, final, staged_tex,
                   staged_pdf, proof, deferred, probe>>

\* os.remove(file_path) of the plaintext.
BitcoinTxtRemoveTxt ==
    /\ At("bitcoin_txt", "remove_txt")
    /\ results' = [results EXCEPT ![cur] = @ \ {"txt"}]
    /\ Goto("stamp")
    /\ UNCHANGED <<txt_template, inputs, subfolders, result_yml, pending, final, staged_tex,
                   staged_pdf, changed, proof, deferred, faults, probe>>

\* timestamp_file: ots stamp with check=True.
BitcoinTxtStamp ==
    /\ At("bitcoin_txt", "stamp")
    /\ \E ots \in ExitCodes :
          IF ots = 0
          THEN /\ results' = [results EXCEPT ![cur] = @ \cup {"ots"}]
               /\ proof' = [proof EXCEPT ![cur] = compute_sha256(cur, changed[cur])]
               /\ NextEntry("process_result")
               /\ NoFault
          ELSE /\ Crash
               /\ Fault
               /\ UNCHANGED <<results, proof>>
    /\ UNCHANGED <<txt_template, inputs, subfolders, result_yml, pending, final, staged_tex,
                   staged_pdf, changed, deferred, probe>>

BitcoinTxt ==
    \/ BitcoinTxtStart
    \/ BitcoinTxtProcessResult
    \/ BitcoinTxtSign
    \/ BitcoinTxtRemoveTxt
    \/ BitcoinTxtStamp

\* ------------------------------------ src/generate_bitcoin_pdf_certificate.py

\* Lines 195-197: `for subfolder in sorted(subfolders)`.
BitcoinPdfStart ==
    /\ Begin("bitcoin_pdf", SortedItems(subfolders), "is_ots_done")
    /\ UNCHANGED <<txt_template, fs>>

\* Line 201: the proof is there and the PDF is not.
Gate(i) == "ots" \in results[i] /\ "pdf" \notin results[i]

\* Lines 199-203 and 232-233: the gate, then is_ots_done(ots_file). An
\* upgrade that exits with 0 has rewritten the proof and left its backup.
BitcoinPdfIsOtsDone ==
    /\ At("bitcoin_pdf", "is_ots_done")
    /\ IF Gate(cur)
       THEN \E upgrade \in ExitCodes, verify \in VerifyCodes("signed" \in results[cur], cur),
               stderr \in VerifyStderr :
               LET done == is_ots_done(upgrade, verify, stderr)
               IN  /\ results' = [results EXCEPT ![cur] =
                                     IF upgrade = 0 THEN @ \cup {"bak"} ELSE @]
                   /\ IF done = "True" THEN Goto("get_ots_blockhash") /\ UNCHANGED deferred
                      ELSE IF done = "False"
                           THEN NextEntry("is_ots_done") /\ deferred' = deferred \cup {cur}
                      ELSE Crash /\ UNCHANGED deferred
       ELSE /\ NextEntry("is_ots_done")
            /\ UNCHANGED <<results, deferred>>
    /\ UNCHANGED <<txt_template, inputs, subfolders, result_yml, pending, final, staged_tex,
                   staged_pdf, changed, proof, faults, probe>>

\* Line 205: get_ots_blockhash(ots_file).
BitcoinPdfGetBlockhash ==
    /\ At("bitcoin_pdf", "get_ots_blockhash")
    /\ \E upgrade \in ExitCodes, verify \in VerifyCodes("signed" \in results[cur], cur),
          stderr \in VerifyStderr, curl \in ExitCodes :
          \E stdout \in CurlStdout(BlockHeight(stderr)) :
              /\ txid' = get_ots_blockhash(upgrade, verify, stderr, curl, stdout)
              /\ results' = [results EXCEPT ![cur] = IF upgrade = 0 THEN @ \cup {"bak"} ELSE @]
    /\ pc' = "render"
    /\ UNCHANGED <<txt_template, inputs, subfolders, result_yml, pending, final, staged_tex,
                   staged_pdf, changed, proof, prog, worklist, idx, written, compiled, deferred,
                   faults, probe>>

\* Lines 205-215: the certificate_data of a Bitcoin certificate.
BitcoinData(content, digest, anchor) ==
    LET date == format_date(extract_property(content, "Date of completion"))
    IN  IF date.exc # "" THEN Raised(date.exc)
        ELSE Returned(
              [kind |-> "bitcoin",
               fullname |-> str(extract_property(content, "Display name")),
               date |-> str(date.val),
               hash_1 |-> str(split_and_format_hash(digest)[1]),
               hash_2 |-> str(split_and_format_hash(digest)[2]),
               txid_1 |-> str(split_and_format_hash(anchor)[1]),
               txid_2 |-> str(split_and_format_hash(anchor)[2])])

\* Lines 206-222: the data is written into the template as
\* ../pending/bitcoin_certificate-signed.tex, the same file for every entry.
BitcoinPdfRender ==
    /\ At("bitcoin_pdf", "render")
    /\ LET data == IF "signed" \in results[cur]
                   THEN BitcoinData(SignedBytes("bitcoin", txt_template, cur, changed[cur]),
                                    compute_sha256(cur, changed[cur]), txid)
                   ELSE Raised("FileNotFoundError")
       IN  IF data.exc # ""
           THEN Crash /\ UNCHANGED staged_tex
           ELSE /\ staged_tex' = cur
                /\ written' = data.val
                /\ txid' = <<>>
                /\ pc' = "compile"
                /\ UNCHANGED <<prog, worklist, idx, compiled>>
    /\ UNCHANGED <<txt_template, inputs, subfolders, result_yml, pending, final, results,
                   staged_pdf, changed, proof, deferred, faults, probe>>

\* Line 223: compile_tex_to_pdf(temp_tex_path), which removes nothing; a
\* pass that writes the PDF writes it from the .tex that is there.
BitcoinPdfCompile ==
    /\ At("bitcoin_pdf", "compile")
    /\ \E pass_1 \in LualatexRuns, pass_2 \in LualatexRuns :
          /\ staged_pdf' = IF PdfAfter(FALSE, pass_1, pass_2) THEN staged_tex ELSE staged_pdf
          /\ compiled' = IF compile_tex_to_pdf(staged_pdf # 0, pass_1, pass_2)
                         THEN "True" ELSE "False"
          /\ IF Compiled(pass_1, pass_2) THEN NoFault ELSE Fault
    /\ pc' = "move"
    /\ written' = NoData
    /\ UNCHANGED <<txt_template, inputs, subfolders, result_yml, pending, final, results,
                   staged_tex, changed, proof, prog, worklist, idx, txid, deferred, probe>>

\* clean_bak_files(result_folder_path)
clean_bak_files(files) == files \ {"bak"}

\* Lines 224-231: a PDF in ../pending is moved into the entry's folder and
\* the folder's backups are removed; shutil.move is not guarded.
BitcoinPdfMove ==
    /\ At("bitcoin_pdf", "move")
    /\ IF staged_pdf # 0
       THEN \E moved \in BOOLEAN :
               IF moved
               THEN /\ results' = [results EXCEPT ![cur] = clean_bak_files(@ \cup {"pdf"})]
                    /\ staged_pdf' = 0
                    /\ NextEntry("is_ots_done")
                    /\ NoFault
               ELSE /\ Crash
                    /\ Fault
                    /\ UNCHANGED <<results, staged_pdf>>
       ELSE /\ NextEntry("is_ots_done")
            /\ NoFault
            /\ UNCHANGED <<results, staged_pdf>>
    /\ UNCHANGED <<txt_template, inputs, subfolders, result_yml, pending, final, staged_tex,
                   changed, proof, deferred, probe>>

BitcoinPdf ==
    \/ BitcoinPdfStart
    \/ BitcoinPdfIsOtsDone
    \/ BitcoinPdfGetBlockhash
    \/ BitcoinPdfRender
    \/ BitcoinPdfCompile
    \/ BitcoinPdfMove

Next ==
    \/ CourseTxt
    \/ Generate
    \/ BitcoinTxt
    \/ BitcoinPdf
    \/ Tamper
    \/ Finish
    \/ Interrupt

Spec == Init /\ [][Next]_vars

\* --------------------------------------- the resolver functions on their own

\* Nothing on disk and no program running: only the two functions are called,
\* on every answer the tools may give.
InitResolver ==
    /\ txt_template = "full"
    /\ inputs = {}
    /\ subfolders = {}
    /\ result_yml = [i \in Items |-> NoFile]
    /\ Empty
    /\ Idle
    /\ faults = 0
    /\ probe = NoProbe

CallIsOtsDone ==
    /\ \E upgrade \in ExitCodes, verify \in ExitCodes, stderr \in StderrSamples :
          probe' = [call |-> "is_ots_done", upgrade |-> upgrade, verify |-> verify,
                    stderr |-> stderr, curl |-> 0, stdout |-> <<>>,
                    result |-> <<is_ots_done(upgrade, verify, stderr)>>]
    /\ UNCHANGED <<txt_template, fs, run, faults>>

CallGetOtsBlockhash ==
    /\ \E upgrade \in ExitCodes, verify \in ExitCodes, stderr \in StderrSamples,
          curl \in ExitCodes :
          \E stdout \in StdoutSamples(BlockHeight(stderr)) :
              probe' = [call |-> "get_ots_blockhash", upgrade |-> upgrade,
                        verify |-> verify, stderr |-> stderr, curl |-> curl,
                        stdout |-> stdout,
                        result |-> get_ots_blockhash(upgrade, verify, stderr, curl, stdout)]
    /\ UNCHANGED <<txt_template, fs, run, faults>>

NextResolver ==
    \/ CallIsOtsDone
    \/ CallGetOtsBlockhash

SpecResolver == InitResolver /\ [][NextResolver]_vars

\* ------------------------------------ the functions of generate.py on their own

\* Strings of up to n characters of an alphabet.
RECURSIVE StringsUpTo(_, _)
StringsUpTo(alphabet, n) ==
    IF n = 0 THEN {<<>>}
    ELSE LET shorter == StringsUpTo(alphabet, n - 1)
         IN  shorter \cup {<<c>> \o t : c \in alphabet, t \in {u \in shorter : Len(u) = n - 1}}

\* The hexadecimal strings the hash splitter is called with: of every length
\* from 0 on, over two of the digits.
HashSamples == StringsUpTo({"0", "f"}, MaxHashLen)

\* Each call is made once, on its own, from the state in which nothing has
\* been called.
CallSplitAndFormatHash ==
    /\ probe = NoProbe
    /\ \E h \in HashSamples :
          probe' = [call |-> "split_and_format_hash", arg |-> h,
                    result |-> split_and_format_hash(h)]
    /\ UNCHANGED <<txt_template, fs, run, faults>>

CallFormatDate ==
    /\ probe = NoProbe
    /\ \E t \in Dates :
          probe' = [call |-> "format_date", date |-> t, arg |-> <<DateString(t)>>,
                    result |-> format_date(<<DateString(t)>>)]
    /\ UNCHANGED <<txt_template, fs, run, faults>>

\* Course titles: letters and blanks in every arrangement, leading, trailing
\* and repeated blanks among them.
TitleSamples == StringsUpTo({"a", "b", " "}, MaxTitleLen)

CallSplitAndFormatCoursename ==
    /\ probe = NoProbe
    /\ \E coursename \in TitleSamples :
          probe' = [call |-> "split_and_format_coursename", arg |-> coursename,
                    result |-> split_and_format_coursename(coursename)]
    /\ UNCHANGED <<txt_template, fs, run, faults>>

\* Template texts: braces and the letters of two field names in every
\* arrangement.
TemplateSamples == StringsUpTo({"{", "}", "a", "b"}, MaxTemplateLen)

\* The fields "a" and "b" and what a field may hold: plain text, None, or
\* text that reads as a placeholder.
FieldValues == { <<"x">>, None, <<"{", "b", "}">> }

FieldItems == { <<"a">>, <<"b">> } \X FieldValues

\* A dict of them: its items in insertion order, no key twice.
FieldMappings ==
    {<<>>} \cup {<<f>> : f \in FieldItems}
           \cup {<<p[1], p[2]>> : p \in {q \in FieldItems \X FieldItems : q[1][1] # q[2][1]}}

CallModifyAndSaveTex ==
    /\ probe = NoProbe
    /\ \E template \in TemplateSamples, certificate_data \in FieldMappings :
          probe' = [call |-> "modify_and_save_tex", template |-> template,
                    data |-> certificate_data,
                    result |-> modify_and_save_tex(template, certificate_data)]
    /\ UNCHANGED <<txt_template, fs, run, faults>>

\* Texts of a signed certificate: labels in two spellings, colons, blanks,
\* line ends and a value, in every arrangement.
TextPieces == {"Duration", "DURATION", "Course ID", ":", " ", "\n", "10"}

TextSamples == StringsUpTo(TextPieces, MaxTextLen)

PropertyNames == {"Duration", "Course ID", "Full name"}

CallExtractProperty ==
    /\ probe = NoProbe
    /\ \E content \in TextSamples, property_name \in PropertyNames :
          probe' = [call |-> "extract_property", content |-> content,
                    property_name |-> property_name,
                    result |-> extract_property(content, property_name)]
    /\ UNCHANGED <<txt_template, fs, run, faults>>

\* move_files_to_final on every set of the three files that may exist, with
\* every shutil.move that may raise.
CallMoveFilesToFinal ==
    /\ probe = NoProbe
    /\ \E present \in SUBSET {"ots", "signed", "pdf"}, fails \in 0..Len(files_to_move) :
          /\ fails # 0 => files_to_move[fails] \in present
          /\ probe' = [call |-> "move_files_to_final", present |-> present, fails |-> fails,
                       moved |-> MovedFiles(present, fails), result |-> MoveResult(fails)]
    /\ UNCHANGED <<txt_template, fs, run, faults>>

NextFormat ==
    \/ CallSplitAndFormatHash
    \/ CallMoveFilesToFinal
    \/ CallExtractProperty
    \/ CallModifyAndSaveTex
    \/ CallSplitAndFormatCoursename
    \/ CallFormatDate

SpecFormat == InitResolver /\ [][NextFormat]_vars

\* ------------------------------------------------------------------ properties

\* The programs that turn a confirmed proof into a PDF.
Finalizers == {"generate", "bitcoin_pdf"}

\* The item's rendered PDF is in its final location.
Finalized(i) == "pdf" \in final[i] \/ "pdf" \in results[i]

\* The run is inside its loop, at an entry.
InLoop == prog # "none" /\ idx \in 1..Len(worklist)

\* The name the loop of a program sees for an entry.
EntryName(program, i) ==
    CASE program = "course_txt" -> CoursePrefix \o Name(i) \o <<46, 99, 115, 118>>
      [] program = "generate" -> PendingName(i, "ots")
      [] OTHER -> Name(i)

Unspaced(s) == SelectSeq(s, LAMBDA c : c # " ")

\* C1 (as stated): while a finalizing program runs, no step changes the files
\* of an item whose PDF is in its final location, and the compiler is not
\* about to be run for such an item.
IdempotentStep ==
    \A i \in Items :
        (prog \in Finalizers /\ Finalized(i)) =>
            /\ pending'[i] = pending[i]
            /\ final'[i] = final[i]
            /\ results'[i] = results[i]
            /\ ~(InLoop /\ pc = "compile" /\ cur = i)

C1_Idempotent == [][IdempotentStep]_vars

\* C2 (as stated, its last part): between runs, an item whose proof has been
\* archived and is no longer pending has a rendered PDF.
C2_ArchivedHasPdf ==
    prog = "none" =>
        \A i \in Items :
            ("ots" \in final[i] /\ "ots" \notin pending[i]) =>
                ("pdf" \in final[i] \/ "pdf" \in pending[i])

\* C3 (as stated): in every program the entries of the loop are in ascending
\* order of their names.
C3_SortedOrder ==
    prog # "none" =>
        \A k \in 1..(Len(worklist) - 1) :
            StrLess(EntryName(prog, worklist[k]), EntryName(prog, worklist[k + 1]))

\* C4 (as stated): the digest written into a document is the digest the
\* item's proof was stamped for.
C4_DigestIsProofs ==
    written # NoData =>
        <<written.hash_1, written.hash_2>> = split_and_format_hash(proof[cur])

\* C5: a finalizing program that finds an entry's proof not confirmed does
\* not raise, changes none of the item's files (the backup the upgrade tool
\* itself may leave aside), goes on to the next entry at its maturity check,
\* leaves the item where the next run finds it, and never reaches the
\* resolver, the rendering or the compiler for an entry it deferred.
DeferredStep ==
    /\ (prog \in Finalizers /\ InLoop /\ pc = "is_ots_done" /\ prog' = prog) =>
           pc' \in {"is_ots_done", "get_ots_blockhash"}
    /\ (prog \in Finalizers /\ InLoop /\ pc \notin {"is_ots_done", "crashed"}) =>
           cur \notin deferred
    /\ (prog' = prog /\ deferred' # deferred) =>
           LET i == cur
           IN  /\ deferred' = deferred \cup {i}
               /\ pending' = pending
               /\ final' = final
               /\ \A j \in Items : results'[j] \ {"bak"} = results[j] \ {"bak"}
               /\ staged_tex' = staged_tex /\ staged_pdf' = staged_pdf
               /\ inputs' = inputs
               /\ idx' = idx + 1
               /\ pc' = "is_ots_done"
               /\ IF prog = "generate" THEN "ots" \in pending'[i]
                  ELSE "ots" \in results'[i] /\ "pdf" \notin results'[i]

C5_DeferredWork == [][DeferredStep]_vars

\* C5 witness: an earlier entry of the run was deferred, and a later one has
\* just been rendered.
C5_Witness == prog \in Finalizers /\ deferred # {} /\ pc = "compile"

\* C6 (as stated): is_ots_done returns True exactly when verify's output
\* names a block, whatever the upgrade's exit status was.
C6_Original ==
    probe.call = "is_ots_done" =>
        (probe.result = <<"True">> <=> (probe.verify = 0 /\ BlockMatch(probe.stderr) # 0))

\* C6 (amended): is_ots_done returns True exactly when the upgrade and the
\* verify both exit with 0 and verify's output names a block.
C6_Amended ==
    probe.call = "is_ots_done" =>
        (probe.result = <<"True">> <=>
            (probe.upgrade = 0 /\ probe.verify = 0 /\ BlockMatch(probe.stderr) # 0))

\* C6 witness: a failed upgrade before a verify that names a block.
C6_Witness ==
    /\ probe.call = "is_ots_done"
    /\ probe.upgrade # 0 /\ probe.verify = 0 /\ BlockMatch(probe.stderr) # 0
    /\ probe.result = <<"False">>

\* C7: is_ots_done returns True or False for every answer of the tools, and
\* False whenever one of them exits non-zero or verify's output names no
\* block.
C7_PollingSafe ==
    probe.call = "is_ots_done" =>
        /\ probe.result \in {<<"True">>, <<"False">>}
        /\ (probe.upgrade # 0 \/ probe.verify # 0 \/ BlockMatch(probe.stderr) = 0) =>
               probe.result = <<"False">>

\* C7 witness: verify exits non-zero on output that names a block.
C7_Witness ==
    /\ probe.call = "is_ots_done"
    /\ probe.verify # 0 /\ BlockMatch(probe.stderr) # 0
    /\ probe.result = <<"False">>

\* C8 (as stated): what is written into a document as the anchor is a block
\* header, never the outcome of a failed resolution.
C8_AnchorIsHeader ==
    written # NoData => IsHex(Unspaced(written.txid_1 \o written.txid_2))

\* C9 (as stated): no document is written with an absent property in the
\* place of a value.
C9_NoAbsentValue ==
    written # NoData =>
        /\ written.fullname # str(None)
        /\ written.kind = "course" =>
               written.course_id # str(None) /\ written.duration # str(None)

\* C10 (as stated): while entries are left, no step that signs, stamps,
\* resolves the anchor, builds the certificate record or compiles ends with
\* an exception leaving the loop.
IsolatedStep ==
    (/\ InLoop
     /\ idx < Len(worklist)
     /\ pc \in {"sign", "stamp", "get_ots_blockhash", "render", "compile"}
     /\ prog' = prog) => pc' # "crashed"

C10_Isolated == [][IsolatedStep]_vars

\* C11 (as stated): generate.py moves an item's files out of ../pending only
\* when compile_tex_to_pdf returned True for it in this run; after a failed
\* compile the proof and the signed text stay in ../pending.
MoveAfterCompileStep ==
    (At("generate", "move_files_to_final") /\ compiled # "True") =>
        (pending[cur] \cap {"ots", "signed"}) \subseteq pending'[cur]

C11_MoveOnlyAfterCompile == [][MoveAfterCompileStep]_vars

\* An item no run works on any more although its archive is incomplete: its
\* proof is in ../final and not in ../pending, where generate.py looks for
\* it, and its CSV is no longer in ../inputs.
Stranded(i) ==
    /\ "ots" \in final[i]
    /\ "ots" \notin pending[i]
    /\ i \notin inputs
    /\ ~({"ots", "signed", "pdf"} \subseteq final[i])

\* C12 (as stated): a run of generate.py whose compile succeeded may be cut
\* short at any point, between two file moves too, and the item is still one
\* that a later run detects and finalizes: the interruption strands no item.
RecoverableStep ==
    (/\ prog = "generate"
     /\ compiled = "True"
     /\ pc # "crashed"
     /\ idx <= Len(worklist)
     /\ prog' = "none") => \A i \in Items : Stranded(i)' => Stranded(i)

C12_Recoverable == [][RecoverableStep]_vars

\* What makes the stranding final: no step of any program takes an item out
\* of it.
StrandedForGood == [][\A i \in Items : Stranded(i) => Stranded(i)']_vars

\* C20 (as stated): in the Bitcoin PDF flow a PDF gets into an entry's
\* results folder only in a run whose compile_tex_to_pdf returned True for
\* that entry, both passes having exited with 0; otherwise none is moved.
PdfPlacedStep ==
    \A i \in Items :
        ("pdf" \notin results[i] /\ "pdf" \in results'[i]) =>
            (prog = "bitcoin_pdf" /\ cur = i /\ compiled = "True")

C20_PlacedOnlyAfterCompile == [][PdfPlacedStep]_vars

\* C13 (as stated): for a hexadecimal string of any length, the two halves
\* split_and_format_hash returns, their separators removed and put one after
\* the other, are the string again, and the first half holds
\* floor(length / 2) of its characters.
C13_HashRoundTrip ==
    probe.call = "split_and_format_hash" =>
        /\ Unspaced(probe.result[1]) \o Unspaced(probe.result[2]) = probe.arg
        /\ Len(Unspaced(probe.result[1])) = Len(probe.arg) \div 2

\* An odd number of characters, the longer half holding a separator.
C13_Witness ==
    /\ probe.call = "split_and_format_hash"
    /\ Len(probe.arg) = 9
    /\ probe.result[1] = <<"0", "f", "0", "f">>
    /\ probe.result[2] = <<"f", "f", "0", "0", " ", "f">>

\* The English ordinal suffix of a day of the month.
Ordinal(day) ==
    CASE day \in {1, 21, 31} -> "st"
      [] day \in {2, 22} -> "nd"
      [] day \in {3, 23} -> "rd"
      [] OTHER -> "th"

\* The days of a month written without a leading zero.
DayText ==
    <<"1", "2", "3", "4", "5", "6", "7", "8", "9", "10", "11", "12", "13", "14", "15", "16",
      "17", "18", "19", "20", "21", "22", "23", "24", "25", "26", "27", "28", "29", "30",
      "31">>

\* C14 (as stated): for every valid date format_date returns the day without
\* a leading zero, its ordinal suffix (st for 1, 21, 31; nd for 2, 22; rd for
\* 3, 23; th for the rest, 11, 12 and 13 among them), a space, the full name
\* of the month, a comma and the year.
C14_OrdinalDate ==
    probe.call = "format_date" =>
        /\ probe.result.exc = ""
        /\ probe.result.val =
               << DayText[probe.date[3]], Ordinal(probe.date[3]), " ",
                  MonthName[probe.date[2]], ", ", ToString(probe.date[1]) >>

\* The 11th, whose last digit alone would give "st".
C14_Witness ==
    /\ probe.call = "format_date"
    /\ probe.arg = <<"2024-02-11">>
    /\ probe.result.val = <<"11", "th", " ", "February", ", ", "2024">>

\* The number of words of a text: the places where a word begins.
WordCount(s) ==
    Cardinality({k \in 1..Len(s) :
                    s[k] \notin Whitespace /\ (k = 1 \/ s[k - 1] \in Whitespace)})

\* The words of a half, which are joined by single blanks.
WordsOf(half) == SelectSeq(half, LAMBDA w : w # " ")

\* C15 (as stated): of a title of n words split_and_format_coursename returns
\* the first floor(n / 2) words and then the other n - floor(n / 2), in the
\* title's order, so that the two halves together are the title's words.
C15_CoursenameHalves ==
    probe.call = "split_and_format_coursename" =>
        LET n == WordCount(probe.arg)
            first == WordsOf(probe.result.val[1])
            second == WordsOf(probe.result.val[2])
        IN  /\ probe.result.exc = ""
            /\ Len(first) = n \div 2
            /\ Len(second) = n - (n \div 2)
            /\ first \o second = split(probe.arg)

\* Five words split into two and three.
C15_Witness ==
    /\ probe.call = "split_and_format_coursename"
    /\ probe.arg = <<"a", " ", "b", " ", "a", " ", "b", " ", "b">>
    /\ probe.result.val = << <<"a", " ", "b">>, <<"a", " ", "b", " ", "b">> >>

\* The fields of a mapping whose placeholder begins a text.
FieldsAt(text, data) ==
    {k \in 1..Len(data) : StartsWith(text, <<"{">> \o data[k][1] \o <<"}">>)}

\* A template with every placeholder of a field of the mapping replaced by
\* the field's value, and every other character kept.
RECURSIVE Substituted(_, _)
Substituted(template, data) ==
    IF template = <<>> THEN <<>>
    ELSE IF FieldsAt(template, data) # {}
         THEN LET k == CHOOSE x \in FieldsAt(template, data) : TRUE
                  rest == SubSeq(template, Len(data[k][1]) + 3, Len(template))
              IN  str(data[k][2]) \o Substituted(rest, data)
    ELSE <<Head(template)>> \o Substituted(Tail(template), data)

\* C16 (as stated): what modify_and_save_tex writes is the template with each
\* placeholder of a field of the mapping replaced by the field's value and
\* every other character, placeholders of no field among them, unchanged.
C16_RenderIsSubstitution ==
    probe.call = "modify_and_save_tex" =>
        probe.result = Substituted(probe.template, probe.data)

\* A text up to its first line end.
RECURSIVE UpToNewline(_)
UpToNewline(s) ==
    IF s = <<>> \/ Head(s) = "\n" THEN <<>> ELSE <<Head(s)>> \o UpToNewline(Tail(s))

\* What follows the label at place p on its own line.
OwnLine(content, p) == UpToNewline(SubSeq(content, p + 1, Len(content)))

\* The places of a text where a label stands, whatever its case.
LabelPlaces(content, property_name) ==
    {p \in 1..Len(content) : Fold(content[p]) = Fold(property_name)}

\* C17 (as stated): what extract_property returns when it finds the label is
\* the trimmed rest of a line the label stands on, with or without the colon
\* after the label, and never text of a following line.
C17_ValueOfOwnLine ==
    (probe.call = "extract_property" /\ probe.result # None) =>
        \E p \in LabelPlaces(probe.content, probe.property_name) :
            LET rest == OwnLine(probe.content, p)
            IN  \/ probe.result = Strip(rest)
                \/ rest # <<>> /\ Head(rest) = ":" /\ probe.result = Strip(Tail(rest))

\* C18 (as stated): for a text in which the property's name does not occur,
\* in whatever case, extract_property returns None and nothing is raised.
C18_AbsentIsNone ==
    (/\ probe.call = "extract_property"
     /\ LabelPlaces(probe.content, probe.property_name) = {}) => probe.result = None

\* A text with other properties' lines and none of the one asked for.
C18_Witness ==
    /\ probe.call = "extract_property"
    /\ probe.property_name = "Full name"
    /\ probe.content = <<"Duration", ":", " ", "10">>
    /\ probe.result = None

\* C19 (as stated): move_files_to_final returns True exactly when the proof,
\* the signed text and the PDF have all three been moved to ../final.
C19_TrueIffAllMoved ==
    probe.call = "move_files_to_final" =>
        (probe.result = "True" <=> probe.moved = {"ots", "signed", "pdf"})

\* A result that may get a certificate: result.yml is there, its category
\* scores, none for a file without categories, sum to the pass score or
\* more, and the folder has no proof yet.
Eligible(i) ==
    /\ result_yml[i].exists
    /\ sum(result_yml[i].categories) >= 80
    /\ "ots" \notin results[i]

\* C21 (as stated): generate_bitcoin_txt_certificate.py writes a certificate
\* text, runs the signer or runs the timestamper for a result folder only
\* while that folder is eligible; with a proof in the folder it does none of
\* the three.
SignOnceStep ==
    (prog = "bitcoin_txt" /\ prog' = prog) =>
        /\ pc \in {"sign", "stamp"} => Eligible(cur)
        /\ \A i \in Items :
               results'[i] \ results[i] # {} => (InLoop /\ i = cur /\ Eligible(i))

C21_SignOnce == [][SignOnceStep]_vars

\* A later run has passed over its first entry, whose proof and PDF are of
\* earlier runs.
C21_Witness ==
    /\ At("bitcoin_txt", "process_result")
    /\ idx = 2
    /\ {"ots", "pdf"} \subseteq results[worklist[1]]
    /\ result_yml[worklist[1]].exists
    /\ get_total_score(result_yml[worklist[1]]) >= PassScore

\* Consumed: the item's rendered document, proof and signed text are in
\* their final place.
Consumed(i) == {"ots", "signed", "pdf"} \subseteq final[i] \/ "pdf" \in results[i]

\* A step archives a file of an item only at the moving step of a finalizing
\* program, for its current entry, which this run did not defer: the step
\* is reached through is_ots_done having returned True.
ArchivedWhenMatureStep ==
    \A i \in Items :
        (final'[i] # final[i] \/ "pdf" \in results'[i] \ results[i]) =>
            /\ prog \in Finalizers
            /\ InLoop
            /\ cur = i
            /\ i \notin deferred
            /\ pc \in {"move_files_to_final", "move"}

ArchivedWhenMature == [][ArchivedWhenMatureStep]_vars

\* A consumed item gets no file in ../pending again and is in no later work
\* list of generate.py.
StaysConsumedStep ==
    \A i \in Items :
        Consumed(i) =>
            /\ pending'[i] \subseteq pending[i]
            /\ (prog = "none" /\ prog' = "generate") =>
                   \A k \in 1..Len(worklist') : worklist'[k] # i

\* C22 (as stated): an item is archived only in a run in which is_ots_done
\* reported its proof confirmed, and once archived it is never found pending
\* again nor put back into ../pending by any of the programs.
C22_Monotonic == [][ArchivedWhenMatureStep /\ StaysConsumedStep]_vars

\* C23 (as stated): the PDF that generate_bitcoin_pdf_certificate.py moves
\* into an entry's results folder was compiled from that entry's own
\* certificate data, never one that an earlier entry or run has left in
\* ../pending.
OwnPdfStep ==
    \A i \in Items : "pdf" \in results'[i] \ results[i] => staged_pdf = i

C23_OwnPdf == [][OwnPdfStep]_vars

\* The items of a mapping in the opposite order.
Reversed(data) == [k \in 1..Len(data) |-> data[Len(data) + 1 - k]]

\* C24 (as stated): modify_and_save_tex writes the same text whatever the
\* order in which the mapping's fields are gone through, values that read
\* as another field's placeholder included.
C24_OrderIndependent ==
    probe.call = "modify_and_save_tex" =>
        probe.result = modify_and_save_tex(probe.template, Reversed(probe.data))

\* C25 (as stated): generate_course_txt_certificate.py deletes an item's CSV
\* only once its text is signed and stamped in ../pending and the unsigned
\* text is gone, deletes the unsigned text only once the signed one is
\* there, and a signer or timestamper that fails leaves the CSV in
\* ../inputs.
ConsumeStep ==
    \A i \in Items :
        /\ (i \in inputs /\ i \notin inputs') =>
               /\ At("course_txt", "remove_csv") /\ cur = i
               /\ {"signed", "ots"} \subseteq pending[i]
               /\ "txt" \notin pending[i]
               /\ pending'[i] = pending[i]
        /\ ("txt" \in pending[i] /\ "txt" \notin pending'[i]) =>
               /\ At("course_txt", "remove_txt") /\ cur = i
               /\ "signed" \in pending[i]
        /\ (At("course_txt", "sign") \/ At("course_txt", "stamp")) /\ cur = i /\ pc' = "crashed" =>
               i \in inputs'

C25_ConsumedInOrder == [][ConsumeStep]_vars

\* The first item of a run has gone through: its CSV is deleted and
\* ../pending holds its signed text and proof, and no unsigned text.
C25_Witness ==
    /\ At("course_txt", "write")
    /\ idx = 2
    /\ worklist[1] \notin inputs
    /\ pending[worklist[1]] = {"signed", "ots"}

====
